---- MODULE Spec2Model ----
(***************************************************************************)
(* Gesture classifier (GestureController), engine loop                     *)
(* (VirtualMouseEngine) and lifecycle wrapper (VirtualMouseApp) of the     *)
(* virtual mouse.                                                          *)
(*                                                                         *)
(* Units.  Normalised coordinates, thresholds and the smoothing factor are *)
(* integers in thousandths (0.035 is 35); timestamps and durations are     *)
(* integer milliseconds.  A smoothed coordinate is an exact rational       *)
(* <<n, d>> in thousandths, d > 0, in lowest terms.  None is <<>>.         *)
(*                                                                         *)
(* Convention.  `tick` names the step taken last; `obs`, `event`, `cmds`   *)
(* and `cleanup` are the observation, the GestureResult and the pointer    *)
(* commands of that step (empty when the step had none).                   *)
(***************************************************************************)
EXTENDS Integers, Sequences, FiniteSets, TLC

VARIABLES
    cfg,          \* Config: gesture thresholds, smoothing, app settings
    clock,        \* time.monotonic() / loop.time(), in ms
    stop_event,   \* the asyncio.Event handed to run()
    pc,           \* "idle" (run() not called yet), "running", "returned", "raised"
    reason,       \* EngineResult.reason
    camera,       \* CameraStream: [running, idle]
    screen,       \* (screen_w, screen_h) queried at run start
    gestures,     \* GestureController state
    dragging,     \* VirtualMouseEngine._dragging
    last_seen,    \* local last_seen of run()
    tick,         \* the step taken last
    obs,          \* observation of the last tick (None when it had none)
    event,        \* GestureResult of the last tick (None when it had none)
    cmds,         \* pointer commands issued by the last tick's body
    cleanup,      \* pointer commands issued by the finally block of run()
    button,       \* the sink's button, as the commands sent so far leave it
    lastClick,    \* timestamps of the latest two events with is_click, oldest first
    failed,       \* the pointer command that raised in the last step, <<>> if none
    app           \* VirtualMouseApp: [pc, shutdown, should_auto_start, engine_stop,
                  \* tracker_closed]

vars == <<cfg, clock, stop_event, pc, reason, camera, screen, gestures, dragging,
          last_seen, tick, obs, event, cmds, cleanup, button, lastClick, failed,
          app>>

None == <<>>

-----------------------------------------------------------------------------
(* Bounds of the model *)

\* Largest clock value explored, in units of 60 ms.
MaxTime == 8

-----------------------------------------------------------------------------
(* Program constants *)

DefaultSmoothingAlpha == 250
DefaultClickThreshold == 35
DefaultScrollThreshold == 120
DefaultDebounceMs == 180
ScrollCap == 250
ScrollScale == 120
MissingDistance == 1000
THUMB_TIP == 4
INDEX_TIP == 8
MIDDLE_TIP == 12
NumLandmarks == 21

-----------------------------------------------------------------------------
(* Exact arithmetic on rationals <<n, d>> *)

Abs(x) == IF x < 0 THEN -x ELSE x

Min(a, b) == IF a < b THEN a ELSE b

RECURSIVE GCD(_, _)
GCD(a, b) == IF b = 0 THEN a ELSE GCD(b, a % b)

Norm(n, d) == LET g == GCD(Abs(n), d) IN <<n \div g, d \div g>>

Rat(i) == <<i, 1>>

Blend_SameWeight(a, x, b, y) ==
    Norm(a * x[1] * y[2] + a * y[1] * x[2], 1000 * x[2] * y[2])

\* a * x + b * y, all over 1000 (a, b integers in thousandths)
Blend(a, x, b, y) == Norm(a * x[1] * y[2] + b * y[1] * x[2], 1000 * x[2] * y[2])

\* np.clip on a rational, bounds in thousandths
Clip(r, lo, hi) ==
    IF r[1] < lo * r[2] THEN Rat(lo)
    ELSE IF r[1] > hi * r[2] THEN Rat(hi)
    ELSE r

\* np.clip on an integer
ClipInt(x, lo, hi) == IF x < lo THEN lo ELSE IF x > hi THEN hi ELSE x

\* math.copysign(mag, sign) for a non-zero sign
CopySign(mag, sign) == IF sign < 0 THEN -mag ELSE mag

-----------------------------------------------------------------------------
(* HandObservation.  landmarks is a list of n points of which process()     *)
(* reads entries 4, 8 and 12; an entry at or beyond n does not exist.       *)

Has(o, idx) == idx < o.n

Landmark(o, idx) ==
    CASE idx = THUMB_TIP -> o.thumb
      [] idx = INDEX_TIP -> o.index
      [] idx = MIDDLE_TIP -> o.middle

\* observation.landmarks[idx]: the point, or IndexError
GetItem(o, idx) ==
    IF Has(o, idx) THEN [error |-> "none", pt |-> Landmark(o, idx)]
    ELSE [error |-> "IndexError", pt |-> None]

Observation(n, thumb, index, middle, ts) ==
    [n |-> n, thumb |-> thumb, index |-> index, middle |-> middle, timestamp |-> ts]

-----------------------------------------------------------------------------
(* GestureController *)

NewGestureController ==
    [smoothed_position |-> None, last_pinched |-> FALSE,
     last_event_time |-> 0, drag_active |-> FALSE]

\* Mutant of IsDebounced: the window is closed one instant early
IsDebounced_Inclusive(g, c, timestamp) ==
    (timestamp - g.last_event_time) >= c.debounce_ms

\* _is_debounced
IsDebounced(g, c, timestamp) == (timestamp - g.last_event_time) > c.debounce_ms

\* Mutant of ComputePointer: the weights of the raw and the previous position
\* are exchanged
ComputePointer_SwappedWeights(g, c, o) ==
    LET fingertip == GetItem(o, INDEX_TIP)
    IN IF fingertip.error = "IndexError"
       THEN [raised |-> FALSE, pointer |-> None, smoothed |-> g.smoothed_position]
       ELSE LET position == <<Rat(fingertip.pt[1]), Rat(fingertip.pt[2])>>
                alpha == ClipInt(c.smoothing_alpha, 0, 1000)
                prev == g.smoothed_position
                sm == IF prev = None
                      THEN position
                      ELSE <<Blend(1000 - alpha, position[1], alpha, prev[1]),
                             Blend(1000 - alpha, position[2], alpha, prev[2])>>
            IN [raised |-> FALSE,
                pointer |-> <<Clip(sm[1], 0, 1000), Clip(sm[2], 0, 1000)>>,
                smoothed |-> sm]

\* _compute_pointer: the emitted pointer and the new _smoothed_position.
\* except IndexError: return None
ComputePointer(g, c, o) ==
    LET fingertip == GetItem(o, INDEX_TIP)
    IN IF fingertip.error = "IndexError"
       THEN [raised |-> FALSE, pointer |-> None, smoothed |-> g.smoothed_position]
       ELSE LET position == <<Rat(fingertip.pt[1]), Rat(fingertip.pt[2])>>
                alpha == ClipInt(c.smoothing_alpha, 0, 1000)
                prev == g.smoothed_position
                sm == IF prev = None
                      THEN position
                      ELSE <<Blend(alpha, position[1], 1000 - alpha, prev[1]),
                             Blend(alpha, position[2], 1000 - alpha, prev[2])>>
            IN [raised |-> FALSE,
                pointer |-> <<Clip(sm[1], 0, 1000), Clip(sm[2], 0, 1000)>>,
                smoothed |-> sm]

\* Mutant of Distance: the IndexError of a missing landmark is not caught
Distance_Uncaught(o, idx_a, idx_b) ==
    LET pt_a == GetItem(o, idx_a)
        pt_b == GetItem(o, idx_b)
    IN IF pt_a.error = "IndexError" \/ pt_b.error = "IndexError"
       THEN [raised |-> TRUE, sq |-> 0]
       ELSE [raised |-> FALSE,
             sq |-> (pt_a.pt[1] - pt_b.pt[1]) * (pt_a.pt[1] - pt_b.pt[1])
                    + (pt_a.pt[2] - pt_b.pt[2]) * (pt_a.pt[2] - pt_b.pt[2])]

\* _distance, squared: math.dist(a, b) ** 2.  except IndexError: return 1.0
Distance(o, idx_a, idx_b) ==
    LET pt_a == GetItem(o, idx_a)
        pt_b == GetItem(o, idx_b)
    IN IF pt_a.error = "IndexError" \/ pt_b.error = "IndexError"
       THEN [raised |-> FALSE, sq |-> MissingDistance * MissingDistance]
       ELSE [raised |-> FALSE,
             sq |-> (pt_a.pt[1] - pt_b.pt[1]) * (pt_a.pt[1] - pt_b.pt[1])
                    + (pt_a.pt[2] - pt_b.pt[2]) * (pt_a.pt[2] - pt_b.pt[2])]

\* Mutant of VerticalDelta: a missing landmark counts as a full-frame offset
VerticalDelta_MissingIsFar(o, idx_a, idx_b) ==
    LET pt_a == GetItem(o, idx_a)
        pt_b == GetItem(o, idx_b)
    IN IF pt_a.error = "IndexError" \/ pt_b.error = "IndexError"
       THEN [raised |-> FALSE, delta |-> MissingDistance]
       ELSE [raised |-> FALSE, delta |-> pt_b.pt[2] - pt_a.pt[2]]

\* _vertical_delta.  except IndexError: return 0.0
VerticalDelta(o, idx_a, idx_b) ==
    LET pt_a == GetItem(o, idx_a)
        pt_b == GetItem(o, idx_b)
    IN IF pt_a.error = "IndexError" \/ pt_b.error = "IndexError"
       THEN [raised |-> FALSE, delta |-> 0]
       ELSE [raised |-> FALSE, delta |-> pt_b.pt[2] - pt_a.pt[2]]

\* pinch_distance < click_threshold, on the squared distance
BelowThreshold(sq, threshold) == threshold > 0 /\ sq < threshold * threshold

\* Mutant of ScrollCheck: the sign of the delta is kept
ScrollCheck_SameSign(c, middle_delta) ==
    IF Abs(middle_delta) > c.scroll_threshold
    THEN [gesture |-> "scroll",
          scroll_delta |-> CopySign(Min(Abs(middle_delta), ScrollCap), middle_delta)]
    ELSE [gesture |-> "move", scroll_delta |-> 0]

\* lines 61-64: the scroll check
ScrollCheck(c, middle_delta) ==
    IF Abs(middle_delta) > c.scroll_threshold
    THEN [gesture |-> "scroll",
          scroll_delta |-> -CopySign(Min(Abs(middle_delta), ScrollCap), middle_delta)]
    ELSE [gesture |-> "move", scroll_delta |-> 0]

\* Mutant of PinchCheck: a pinch does not replace a scroll
PinchCheck_ScrollWins(g, c, pinched, now, gesture) ==
    IF pinched
    THEN IF ~g.last_pinched /\ IsDebounced(g, c, now)
         THEN [gesture |-> IF gesture = "scroll" THEN gesture ELSE "click",
               is_click |-> TRUE, is_drag |-> FALSE,
               last_pinched |-> TRUE, last_event_time |-> now, drag_active |-> TRUE]
         ELSE [gesture |-> IF gesture = "scroll" THEN gesture ELSE "drag",
               is_click |-> FALSE, is_drag |-> TRUE,
               last_pinched |-> TRUE, last_event_time |-> g.last_event_time,
               drag_active |-> TRUE]
    ELSE [gesture |-> gesture, is_click |-> FALSE, is_drag |-> FALSE,
          last_pinched |-> FALSE, last_event_time |-> g.last_event_time,
          drag_active |-> FALSE]

\* lines 66-83: the pinch check, given the gesture the scroll check left
PinchCheck(g, c, pinched, now, gesture) ==
    IF pinched
    THEN IF ~g.last_pinched /\ IsDebounced(g, c, now)
         THEN [gesture |-> "click", is_click |-> TRUE, is_drag |-> FALSE,
               last_pinched |-> TRUE, last_event_time |-> now, drag_active |-> TRUE]
         ELSE [gesture |-> "drag", is_click |-> FALSE, is_drag |-> TRUE,
               last_pinched |-> TRUE, last_event_time |-> g.last_event_time,
               drag_active |-> TRUE]
    ELSE [gesture |-> gesture, is_click |-> FALSE, is_drag |-> FALSE,
          last_pinched |-> FALSE, last_event_time |-> g.last_event_time,
          drag_active |-> FALSE]

\* Mutant of GestureResult: the delta is kept only on a Scroll event
GestureResult_DeltaOnlyOnScroll(gesture, pointer, scroll_delta, is_click, is_drag) ==
    [gesture |-> gesture, pointer |-> pointer,
     scroll_delta |-> IF gesture = "scroll" THEN scroll_delta ELSE 0,
     is_click |-> is_click, is_drag |-> is_drag]

GestureResult(gesture, pointer, scroll_delta, is_click, is_drag) ==
    [gesture |-> gesture, pointer |-> pointer, scroll_delta |-> scroll_delta,
     is_click |-> is_click, is_drag |-> is_drag]

\* process: [raised, result, state].  An exception of a helper leaves the
\* state as the helpers before it left it and yields no result.
Process(g, c, o) ==
    LET p == ComputePointer(g, c, o)
        g1 == [g EXCEPT !.smoothed_position = p.smoothed]
        dist == Distance(o, THUMB_TIP, INDEX_TIP)
        vd == VerticalDelta(o, INDEX_TIP, MIDDLE_TIP)
        now == o.timestamp
    IN  IF p.raised THEN [raised |-> TRUE, result |-> None, state |-> g]
        ELSE IF dist.raised \/ vd.raised
        THEN [raised |-> TRUE, result |-> None, state |-> g1]
        ELSE LET sc == ScrollCheck(c, vd.delta)
                 pn == PinchCheck(g1, c, BelowThreshold(dist.sq, c.click_threshold),
                                  now, sc.gesture)
             IN [raised |-> FALSE,
                 result |-> GestureResult(
                     IF p.pointer # None THEN pn.gesture ELSE "idle",
                     p.pointer, sc.scroll_delta, pn.is_click, pn.is_drag),
                 state |-> [smoothed_position |-> p.smoothed,
                            last_pinched |-> pn.last_pinched,
                            last_event_time |-> pn.last_event_time,
                            drag_active |-> pn.drag_active]]

Reset_ClearsEventTime(g) == NewGestureController

\* reset
Reset(g) ==
    [g EXCEPT !.smoothed_position = None, !.last_pinched = FALSE, !.drag_active = FALSE]

-----------------------------------------------------------------------------
(* Pointer sink commands, as a recording sink keeps them *)

Cmd(op, a, b) == [op |-> op, a |-> a, b |-> b]
Move(x, y) == Cmd("move", x, y)
Click == Cmd("click", 0, 0)
Press == Cmd("press", 0, 0)
Release == Cmd("release", 0, 0)
\* scroll(dy, dx = 0.0), dy in thousandths
Scroll(dy) == Cmd("scroll", dy, 0)

\* The sink's button after the commands of s, sent in order
RECURSIVE ButtonAfter(_, _)
ButtonAfter(b, s) ==
    IF s = <<>> THEN b
    ELSE ButtonAfter(CASE Head(s).op = "press" -> "down"
                       [] Head(s).op = "release" -> "up"
                       [] OTHER -> b,
                     Tail(s))

\* How many commands of s have operation op
RECURSIVE Count(_, _)
Count(s, op) ==
    IF s = <<>> THEN 0
    ELSE (IF Head(s).op = op THEN 1 ELSE 0) + Count(Tail(s), op)

-----------------------------------------------------------------------------
(* VirtualMouseEngine *)

\* int(p * size) for a clamped pointer coordinate p = n/d thousandths
ToPixel(p, size) == (p[1] * size) \div (p[2] * 1000)

\* Mutant of ApplyGesture: a Drag presses the button whether or not it is held
ApplyGesture_PressAlways(gesture, drag, scr) ==
    LET move == IF gesture.pointer # None
                THEN <<Move(ToPixel(gesture.pointer[1], scr[1]),
                            ToPixel(gesture.pointer[2], scr[2]))>>
                ELSE <<>>
        btn == IF gesture.gesture = "click" /\ gesture.is_click
               THEN [cmds |-> <<Click>> \o (IF drag THEN <<Release>> ELSE <<>>),
                     dragging |-> FALSE]
               ELSE IF gesture.gesture = "drag"
               THEN [cmds |-> <<Press>>, dragging |-> TRUE]
               ELSE [cmds |-> IF drag THEN <<Release>> ELSE <<>>, dragging |-> FALSE]
        scroll == IF gesture.gesture = "scroll" /\ gesture.scroll_delta # 0
                  THEN <<Scroll(gesture.scroll_delta * ScrollScale)>>
                  ELSE <<>>
    IN [cmds |-> move \o btn.cmds \o scroll, dragging |-> btn.dragging]

\* Mutant of ApplyGesture: the release of the last branch is sent whether or not
\* the button is held
ApplyGesture_ReleaseAlways(gesture, drag, scr) ==
    LET move == IF gesture.pointer # None
                THEN <<Move(ToPixel(gesture.pointer[1], scr[1]),
                            ToPixel(gesture.pointer[2], scr[2]))>>
                ELSE <<>>
        btn == IF gesture.gesture = "click" /\ gesture.is_click
               THEN [cmds |-> <<Click>> \o (IF drag THEN <<Release>> ELSE <<>>),
                     dragging |-> FALSE]
               ELSE IF gesture.gesture = "drag"
               THEN [cmds |-> IF ~drag THEN <<Press>> ELSE <<>>, dragging |-> TRUE]
               ELSE [cmds |-> <<Release>>, dragging |-> FALSE]
        scroll == IF gesture.gesture = "scroll" /\ gesture.scroll_delta # 0
                  THEN <<Scroll(gesture.scroll_delta * ScrollScale)>>
                  ELSE <<>>
    IN [cmds |-> move \o btn.cmds \o scroll, dragging |-> btn.dragging]

\* Mutant of ApplyGesture: a scroll is sent for every non-zero scroll_delta,
\* whatever the kind of the event
ApplyGesture_ScrollAnyKind(gesture, drag, scr) ==
    LET move == IF gesture.pointer # None
                THEN <<Move(ToPixel(gesture.pointer[1], scr[1]),
                            ToPixel(gesture.pointer[2], scr[2]))>>
                ELSE <<>>
        btn == IF gesture.gesture = "click" /\ gesture.is_click
               THEN [cmds |-> <<Click>> \o (IF drag THEN <<Release>> ELSE <<>>),
                     dragging |-> FALSE]
               ELSE IF gesture.gesture = "drag"
               THEN [cmds |-> IF ~drag THEN <<Press>> ELSE <<>>, dragging |-> TRUE]
               ELSE [cmds |-> IF drag THEN <<Release>> ELSE <<>>, dragging |-> FALSE]
        scroll == IF gesture.scroll_delta # 0
                  THEN <<Scroll(gesture.scroll_delta * ScrollScale)>>
                  ELSE <<>>
    IN [cmds |-> move \o btn.cmds \o scroll, dragging |-> btn.dragging]

\* _apply_gesture: the commands sent, in order, and the new _dragging
ApplyGesture(gesture, drag, scr) ==
    LET move == IF gesture.pointer # None
                THEN <<Move(ToPixel(gesture.pointer[1], scr[1]),
                            ToPixel(gesture.pointer[2], scr[2]))>>
                ELSE <<>>
        btn == IF gesture.gesture = "click" /\ gesture.is_click
               THEN [cmds |-> <<Click>> \o (IF drag THEN <<Release>> ELSE <<>>),
                     dragging |-> FALSE]
               ELSE IF gesture.gesture = "drag"
               THEN [cmds |-> IF ~drag THEN <<Press>> ELSE <<>>, dragging |-> TRUE]
               ELSE [cmds |-> IF drag THEN <<Release>> ELSE <<>>, dragging |-> FALSE]
        scroll == IF gesture.gesture = "scroll" /\ gesture.scroll_delta # 0
                  THEN <<Scroll(gesture.scroll_delta * ScrollScale)>>
                  ELSE <<>>
    IN [cmds |-> move \o btn.cmds \o scroll, dragging |-> btn.dragging]

\* Mutant of Finally: the cleanup forgets the held button
Finally_NoRelease(drag) == <<>>

\* the finally block of run(): the commands sent
Finally(drag) == IF drag THEN <<Release>> ELSE <<>>

\* the idle-timeout test of the no-observation branch
IdleTimedOut_Inclusive(c, now, seen) ==
    c.max_inactive_ms > 0 /\ now - seen >= c.max_inactive_ms

IdleTimedOut(c, now, seen) == c.max_inactive_ms > 0 /\ now - seen > c.max_inactive_ms

-----------------------------------------------------------------------------
(* Configurations and inputs *)

Config(alpha, click, scroll, debounce, inactive) ==
    [smoothing_alpha |-> alpha, click_threshold |-> click,
     scroll_threshold |-> scroll, debounce_ms |-> debounce,
     max_inactive_ms |-> inactive]

\* GestureConfig() with max_inactive_seconds set to inactive ms
DefaultConfig(inactive) ==
    Config(DefaultSmoothingAlpha, DefaultClickThreshold, DefaultScrollThreshold,
           DefaultDebounceMs, inactive)

\* The defaults with a short idle timeout and with the timeout disabled, and
\* the thresholds the unit tests use
Configs ==
    {DefaultConfig(120), DefaultConfig(0),
     Config(DefaultSmoothingAlpha, 50, 50, 50, 120)}

\* The defaults with smoothing factors inside, at the ends of and outside [0, 1]
PointerConfigs ==
    {Config(a, DefaultClickThreshold, DefaultScrollThreshold, DefaultDebounceMs, 0) :
        a \in {DefaultSmoothingAlpha, 500, 1000, 0, 1500, -500}}

Horizon == MaxTime * 60

\* Time between two frames, ms
ClockSteps == {60, 180}
PointerSteps == {120}

ScreenSizes == {<<1366, 768>>}

Shape(n, thumb, index, middle) == [n |-> n, thumb |-> thumb, index |-> index, middle |-> middle]

\* A hand at the centre of the frame: the thumb tip dx right of the index tip,
\* the middle tip dy below it
Hand(n, dx, dy) == Shape(n, <<500 + dx, 500>>, <<500, 500>>, <<500, 500 + dy>>)

\* Full hands by pinch distance (below the default threshold, at it, at the
\* tests' threshold) and middle-finger offset (none, at the default threshold,
\* above the cap, upwards); a pinching, scrolling hand cut short before and
\* after each landmark that process() reads
Shapes ==
    {Hand(NumLandmarks, dx, dy) : dx \in {20, 35, 50}, dy \in {0, 120, 300, -200}}
    \cup {Hand(n, 20, 300) : n \in {0, THUMB_TIP, THUMB_TIP + 1, INDEX_TIP,
                                     INDEX_TIP + 1, MIDDLE_TIP}}

\* Open hands whose index tip is at, between and outside the corners of the
\* frame, and landmark lists of every length of a pinching, scrolling hand
PointerShapes ==
    {Shape(NumLandmarks, <<p[1] + 400, p[2]>>, p, p) :
        p \in {<<100, 100>>, <<900, 900>>, <<1100, -50>>}}
    \cup {Hand(n, 20, 300) : n \in 0..NumLandmarks}

WithTimestamp(sh, ts) == Observation(sh.n, sh.thumb, sh.index, sh.middle, ts)

-----------------------------------------------------------------------------
(* State machine *)

\* VirtualMouseApp.__init__: run() not called yet, no shutdown requested, no
\* engine stop event (None); the hand tracker of its engine is open
NewApp ==
    [pc |-> "init", shutdown |-> FALSE, should_auto_start |-> FALSE,
     engine_stop |-> FALSE, tracker_closed |-> FALSE]

InitWith(configs) ==
    /\ cfg \in configs
    /\ clock = 0
    /\ stop_event = FALSE
    /\ pc = "idle"
    /\ reason = "none"
    /\ camera = [running |-> FALSE, idle |-> FALSE]
    /\ screen = <<0, 0>>
    /\ gestures = NewGestureController
    /\ dragging = FALSE
    /\ last_seen = 0
    /\ tick = "init"
    /\ obs = None
    /\ event = None
    /\ cmds = <<>>
    /\ cleanup = <<>>
    /\ button = "up"
    /\ lastClick = <<>>
    /\ failed = <<>>
    /\ app = NewApp

\* The log of the latest two clicks, after a click at ts
Latest(log, ts) == IF log = <<>> THEN <<ts>> ELSE <<log[Len(log)], ts>>

\* What every step records of the commands it sent
Sent(body, fin) ==
    /\ cmds' = body
    /\ cleanup' = fin
    /\ button' = ButtonAfter(button, body \o fin)
    /\ failed' = <<>>

\* The loop was left: the finally block stops the camera, releases a held
\* button and clears _dragging; run() returns
Leave(why, drag, body, idle) ==
    /\ pc' = "returned"
    /\ reason' = why
    /\ camera' = [running |-> FALSE, idle |-> idle]
    /\ dragging' = FALSE
    /\ Sent(body, Finally(drag))

\* run() up to the loop, on a new stop event: camera.start(), screen_size(),
\* last_seen = now
EngineRun(steps) ==
    /\ pc \in {"idle", "returned"}
    /\ \E d \in steps, scr \in ScreenSizes :
          /\ clock + d <= Horizon
          /\ clock' = clock + d
          /\ screen' = scr
          /\ last_seen' = clock + d
    /\ stop_event' = FALSE
    /\ pc' = "running"
    /\ reason' = "stopped"
    /\ camera' = [camera EXCEPT !.running = TRUE]
    /\ tick' = "start"
    /\ obs' = None
    /\ event' = None
    /\ Sent(<<>>, <<>>)
    /\ UNCHANGED <<cfg, gestures, dragging, lastClick>>

\* run() is called by a caller other than the lifecycle wrapper
RunStart(steps) == EngineRun(steps) /\ UNCHANGED app

\* run() raises before its loop: camera.start() cannot open the camera and
\* raises RuntimeError before the stream runs, or it starts the stream and
\* the screen_size() of the pointer sink raises, before the try block is
\* entered
RunStartFails(steps) ==
    /\ pc \in {"idle", "returned"}
    /\ \E d \in steps : clock + d <= Horizon /\ clock' = clock + d
    /\ \E opened \in BOOLEAN :
          /\ camera' = [camera EXCEPT !.running = opened]
          /\ failed' = IF opened THEN <<Cmd("screen_size", 0, 0)>> ELSE <<>>
    /\ pc' = "raised"
    /\ tick' = "start"
    /\ obs' = None
    /\ event' = None
    /\ cmds' = <<>>
    /\ cleanup' = <<>>
    /\ UNCHANGED <<cfg, stop_event, reason, screen, gestures, dragging, last_seen,
                   button, lastClick, app>>

\* The stop event is set from outside the loop
SetStop ==
    /\ pc = "running"
    /\ stop_event' = TRUE
    /\ tick' = "signal"
    /\ obs' = None
    /\ event' = None
    /\ Sent(<<>>, <<>>)
    /\ UNCHANGED <<cfg, clock, pc, reason, camera, screen, gestures, dragging,
                   last_seen, lastClick, app>>

\* Mutant of TickStopped: the idle timeout is tested before the stop event
TickStopped_TimeoutFirst(steps) ==
    /\ pc = "running" /\ camera.running /\ stop_event
    /\ \E d \in steps :
          /\ clock + d <= Horizon
          /\ clock' = clock + d
          /\ Leave(IF IdleTimedOut(cfg, clock + d, last_seen)
                   THEN "idle_timeout" ELSE "stopped",
                   dragging, <<>>, camera.idle)
    /\ tick' = "stopped"
    /\ obs' = None
    /\ event' = None
    /\ UNCHANGED <<cfg, stop_event, screen, gestures, last_seen, lastClick, app>>

\* A frame arrives and the stop event is set
TickStopped(steps) ==
    /\ pc = "running" /\ camera.running /\ stop_event
    /\ \E d \in steps : clock + d <= Horizon /\ clock' = clock + d
    /\ tick' = "stopped"
    /\ obs' = None
    /\ event' = None
    /\ Leave("stopped", dragging, <<>>, camera.idle)
    /\ UNCHANGED <<cfg, stop_event, screen, gestures, last_seen, lastClick, app>>

\* A frame arrives in which detect() finds no hand.  key: the debug view is
\* shown and _poll_exit_key() reads the exit key
TickNoHand(steps) ==
    /\ pc = "running" /\ camera.running /\ ~stop_event
    /\ \E d \in steps, key \in BOOLEAN :
          /\ clock + d <= Horizon
          /\ clock' = clock + d
          /\ gestures' = Reset(gestures)
          /\ IF key
             THEN /\ stop_event' = TRUE
                  /\ Leave("stopped", dragging, <<>>, TRUE)
             ELSE IF IdleTimedOut(cfg, clock + d, last_seen)
             THEN /\ Leave("idle_timeout", dragging, <<>>, TRUE)
                  /\ UNCHANGED stop_event
             ELSE /\ camera' = [camera EXCEPT !.idle = TRUE]
                  /\ Sent(<<>>, <<>>)
                  /\ UNCHANGED <<stop_event, pc, reason, dragging>>
    /\ tick' = "nohand"
    /\ obs' = None
    /\ event' = None
    /\ UNCHANGED <<cfg, screen, last_seen, lastClick, app>>

\* A frame arrives in which detect() finds the hand sh, stamped with the time
\* of detection.  key as in TickNoHand
TickObs(shapes, steps) ==
    /\ pc = "running" /\ camera.running /\ ~stop_event
    /\ \E sh \in shapes, d \in steps, key \in BOOLEAN :
          LET o == WithTimestamp(sh, clock + d)
              r == Process(gestures, cfg, o)
          IN /\ clock + d <= Horizon
             /\ clock' = clock + d
             /\ obs' = o
             /\ last_seen' = o.timestamp
             /\ gestures' = r.state
             /\ IF r.raised
                THEN \* the exception leaves run() through the finally block
                     /\ event' = None
                     /\ lastClick' = lastClick
                     /\ pc' = "raised"
                     /\ camera' = [running |-> FALSE, idle |-> FALSE]
                     /\ dragging' = FALSE
                     /\ Sent(<<>>, Finally(dragging))
                     /\ UNCHANGED <<stop_event, reason>>
                ELSE LET a == ApplyGesture(r.result, dragging, screen)
                     IN /\ event' = r.result
                        /\ lastClick' = IF r.result.is_click
                                         THEN Latest(lastClick, o.timestamp)
                                         ELSE lastClick
                        /\ IF key
                           THEN /\ stop_event' = TRUE
                                /\ Leave("stopped", a.dragging, a.cmds, FALSE)
                           ELSE /\ camera' = [camera EXCEPT !.idle = FALSE]
                                /\ dragging' = a.dragging
                                /\ Sent(a.cmds, <<>>)
                                /\ UNCHANGED <<stop_event, pc, reason>>
    /\ tick' = "obs"
    /\ UNCHANGED <<cfg, screen, app>>

\* _dragging after the commands s of _apply_gesture ran to completion, each
\* press and release being followed by its assignment to _dragging
DraggingAfter(drag, s) == ButtonAfter(IF drag THEN "down" ELSE "up", s) = "down"

\* A frame arrives in which detect() finds the hand sh, and the k-th pointer
\* command of _apply_gesture raises: the commands before it were sent, the ones
\* after it are not, and the exception leaves run() through the finally block,
\* whose release raises in turn when finOK is false.  A command that raises is
\* taken to have had no effect on the sink
TickSinkFails(shapes, steps) ==
    /\ pc = "running" /\ camera.running /\ ~stop_event
    /\ \E sh \in shapes, d \in steps, finOK \in BOOLEAN :
          LET o == WithTimestamp(sh, clock + d)
              r == Process(gestures, cfg, o)
              a == ApplyGesture(r.result, dragging, screen)
          IN /\ clock + d <= Horizon
             /\ ~r.raised
             /\ clock' = clock + d
             /\ obs' = o
             /\ last_seen' = o.timestamp
             /\ gestures' = r.state
             /\ event' = r.result
             /\ lastClick' = IF r.result.is_click
                              THEN Latest(lastClick, o.timestamp)
                              ELSE lastClick
             /\ \E k \in 1..Len(a.cmds) :
                   LET done == SubSeq(a.cmds, 1, k - 1)
                       held == DraggingAfter(dragging, done)
                       fin == IF held /\ finOK THEN <<Release>> ELSE <<>>
                   IN /\ cmds' = done
                      /\ cleanup' = fin
                      /\ button' = ButtonAfter(button, done \o fin)
                      /\ failed' = <<a.cmds[k]>>
                      /\ dragging' = (held /\ ~finOK)
    /\ pc' = "raised"
    /\ camera' = [running |-> FALSE, idle |-> FALSE]
    /\ tick' = "obs"
    /\ UNCHANGED <<cfg, stop_event, reason, screen, app>>

\* The frame source ends: frames() returns and the loop is left
FramesEnd ==
    /\ pc = "running" /\ camera.running
    /\ tick' = "ended"
    /\ obs' = None
    /\ event' = None
    /\ Leave(reason, dragging, <<>>, camera.idle)
    /\ UNCHANGED <<cfg, clock, stop_event, screen, gestures, last_seen, lastClick,
                   app>>

\* A step of the lifecycle wrapper that leaves the engine as it is
AppStep(label) ==
    /\ tick' = label
    /\ obs' = None
    /\ event' = None
    /\ Sent(<<>>, <<>>)
    /\ UNCHANGED <<cfg, clock, pc, reason, camera, screen, gestures, dragging,
                   last_seen, lastClick>>

\* Mutant of AppStartsEngine: the new stop event is not kept in _engine_stop
AppStartsEngine_EventNotKept(steps, auto) ==
    /\ EngineRun(steps)
    /\ app' = [app EXCEPT !.pc = "engine", !.should_auto_start = auto]

\* VirtualMouseApp.run from the assignment of a new engine stop event to the
\* first await of engine.run()
AppStartsEngine(steps, auto) ==
    /\ EngineRun(steps)
    /\ app' = [app EXCEPT !.pc = "engine", !.should_auto_start = auto,
                          !.engine_stop = TRUE]

\* VirtualMouseApp.run(auto_start) is called and runs to its first await: the
\* wait for activation, or the engine run when auto_start is true
AppRun(steps) ==
    /\ app.pc = "init"
    /\ \E auto \in BOOLEAN :
          IF app.shutdown
          THEN /\ app' = [app EXCEPT !.pc = "done", !.should_auto_start = auto]
               /\ AppStep("app")
               /\ UNCHANGED stop_event
          ELSE IF auto
          THEN AppStartsEngine(steps, auto)
          ELSE /\ app' = [app EXCEPT !.pc = "waiting", !.should_auto_start = auto]
               /\ AppStep("app")
               /\ UNCHANGED stop_event

\* _await_activation() returns: the user pressed ENTER
AppActivated(steps) ==
    /\ app.pc = "waiting"
    /\ IF app.shutdown
       THEN /\ app' = [app EXCEPT !.pc = "done"]
            /\ AppStep("app")
            /\ UNCHANGED stop_event
       ELSE AppStartsEngine(steps, app.should_auto_start)

\* Mutant of AppAfterRun: the wrapper leaves its loop after every run
AppAfterRun_AlwaysBreaks ==
    /\ app.pc = "engine" /\ pc = "returned"
    /\ app' = [app EXCEPT !.pc = "done"]
    /\ AppStep("app")
    /\ UNCHANGED stop_event

\* engine.run() returned to VirtualMouseApp.run, which leaves its loop or
\* goes back to waiting for activation
AppAfterRun ==
    /\ app.pc = "engine" /\ pc = "returned"
    /\ app' = IF app.shutdown \/ (app.engine_stop /\ stop_event)
              THEN [app EXCEPT !.pc = "done"]
              ELSE [app EXCEPT !.pc = "waiting", !.should_auto_start = FALSE,
                               !.engine_stop = FALSE]
    /\ AppStep("app")
    /\ UNCHANGED stop_event

AppShutdown_KeepsEngine ==
    /\ ~app.shutdown
    /\ app' = [app EXCEPT !.shutdown = TRUE, !.tracker_closed = TRUE]
    /\ AppStep("shutdown")
    /\ UNCHANGED stop_event

\* VirtualMouseApp.shutdown(), with engine.shutdown(), which closes the tracker
AppShutdown ==
    /\ ~app.shutdown
    /\ app' = [app EXCEPT !.shutdown = TRUE, !.tracker_closed = TRUE]
    /\ stop_event' = IF app.engine_stop THEN TRUE ELSE stop_event
    /\ AppStep("shutdown")

Init == InitWith(Configs)

Next ==
    \/ RunStart(ClockSteps)
    \/ SetStop
    \/ TickStopped(ClockSteps)
    \/ TickNoHand(ClockSteps)
    \/ TickObs(Shapes, ClockSteps)
    \/ FramesEnd

Spec == Init /\ [][Next]_vars

\* The same engine, fed with hands that move the pointer, under every
\* smoothing factor
InitPointer == InitWith(PointerConfigs)

NextPointer ==
    \/ RunStart(PointerSteps)
    \/ SetStop
    \/ TickStopped(PointerSteps)
    \/ TickNoHand(PointerSteps \cup {60})
    \/ TickObs(PointerShapes, PointerSteps)
    \/ FramesEnd

SpecPointer == InitPointer /\ [][NextPointer]_vars

\* The engine with a pointer sink whose commands can raise, fed with a
\* pinching, an open and a scrolling hand
FaultyShapes == {Hand(NumLandmarks, 20, 0), Hand(NumLandmarks, 50, 0),
                 Hand(NumLandmarks, 50, 300)}

NextFaulty ==
    \/ RunStart(ClockSteps)
    \/ RunStartFails(ClockSteps)
    \/ SetStop
    \/ TickStopped(ClockSteps)
    \/ TickNoHand(ClockSteps)
    \/ TickObs(FaultyShapes, ClockSteps)
    \/ TickSinkFails(FaultyShapes, ClockSteps)
    \/ FramesEnd

SpecFaulty == Init /\ [][NextFaulty]_vars

\* The engine under the lifecycle wrapper, fed with a pinching and an open hand
AppShapes == {Hand(NumLandmarks, 20, 0), Hand(NumLandmarks, 50, 0)}

NextApp ==
    \/ AppRun(ClockSteps)
    \/ AppActivated(ClockSteps)
    \/ AppAfterRun
    \/ AppShutdown
    \/ TickStopped(ClockSteps)
    \/ TickNoHand(ClockSteps)
    \/ TickObs(AppShapes, ClockSteps)
    \/ FramesEnd

SpecApp == Init /\ [][NextApp]_vars

-----------------------------------------------------------------------------
(* Properties *)

\* Every press of s finds the button up and every release finds it down,
\* starting from button b
RECURSIVE Alternates(_, _)
Alternates(b, s) ==
    IF s = <<>> THEN TRUE
    ELSE /\ Head(s).op = "press" => b = "up"
         /\ Head(s).op = "release" => b = "down"
         /\ Alternates(ButtonAfter(b, <<Head(s)>>), Tail(s))

\* The observation's thumb-index distance is below the click threshold
Pinched(o, c) == BelowThreshold(Distance(o, THUMB_TIP, INDEX_TIP).sq, c.click_threshold)

\* middle_delta of the observation
MiddleDelta(o) == VerticalDelta(o, INDEX_TIP, MIDDLE_TIP).delta

\* C1: the press and release commands sent to the sink alternate, starting
\* with a press, and after every step _dragging is true exactly when the last
\* of them was a press.
C1_PressReleaseAlternate ==
    /\ [](dragging <=> button = "down")
    /\ [][Alternates(button, cmds' \o cleanup')]_vars

\* C1 witness: an observation tick released a button that an earlier tick pressed.
C1_Witness ==
    /\ tick = "obs" /\ pc = "running"
    /\ Count(cmds, "release") = 1 /\ button = "up" /\ ~dragging

\* C2: whenever run() leaves its loop and returns, the finally block sends
\* exactly one release if the button is held when the loop is left and none
\* otherwise, and _dragging is false on return.
C2_CleanupReleasesOnce ==
    [][pc = "running" /\ pc' = "returned" =>
          /\ ~dragging'
          /\ button' = "up"
          /\ cleanup' = IF ButtonAfter(button, cmds') = "down"
                         THEN <<Release>> ELSE <<>>]_vars

\* C2 witness: run() returned on the idle timeout and its cleanup released the button.
C2_Witness ==
    /\ pc = "returned" /\ reason = "idle_timeout"
    /\ cleanup = <<Release>> /\ ~dragging

\* C3 (as claimed): after a tick without an observation the button is not
\* held: the tick released it and cleared _dragging.
C3_HandLossReleases == tick = "nohand" => (~dragging /\ button = "up")

\* The step before left the hand open, or there was no hand
Released ==
    \/ tick = "nohand"
    \/ tick = "obs" /\ ~Pinched(obs, cfg)

\* C4: two events with is_click are more than debounce_ms apart, and a pinch
\* that starts within debounce_ms of the latest click is a Drag, not a Click.
C4_Debounce ==
    /\ [](Len(lastClick) = 2 => lastClick[2] - lastClick[1] > cfg.debounce_ms)
    /\ [][(/\ tick' = "obs"
            /\ Released
            /\ Pinched(obs', cfg)
            /\ lastClick # <<>>
            /\ obs'.timestamp - lastClick[Len(lastClick)] <= cfg.debounce_ms)
           => (/\ event'.gesture = "drag"
               /\ event'.is_drag
               /\ ~event'.is_click)]_vars

\* C4 witness: a second click was classified.
C4_Witness ==
    /\ tick = "obs" /\ event.is_click
    /\ Len(lastClick) = 2 /\ lastClick[2] = obs.timestamp

\* C5 (as claimed): on a newly constructed classifier with the default
\* thresholds and debounce, the first observation that pinches and has an index
\* fingertip is a Click, whatever its timestamp.
C5_FirstPinchClicks ==
    [][(/\ gestures = NewGestureController
        /\ cfg.click_threshold = DefaultClickThreshold
        /\ cfg.debounce_ms = DefaultDebounceMs
        /\ tick' = "obs"
        /\ Has(obs', INDEX_TIP)
        /\ Pinched(obs', cfg))
       => (event'.gesture = "click" /\ event'.is_click)]_vars

\* C6: process() never raises, whatever the length of the landmark list, and
\* a list without entry 8 yields Idle without a pointer.
C6_ShortListsAreIdle ==
    tick = "obs" =>
        /\ pc # "raised"
        /\ obs.n <= INDEX_TIP => (event.gesture = "idle" /\ event.pointer = None)

\* C6 witness: a list with a thumb tip and no index tip was processed while
\* the classifier remembered a pinch.
C6_Witness ==
    /\ tick = "obs" /\ obs.n > THUMB_TIP /\ obs.n <= INDEX_TIP
    /\ event.gesture = "idle"
    /\ lastClick # <<>>

\* C7: with a pointer, a pinch is a Click or a Drag whatever the middle
\* finger does; Scroll needs no pinch and a middle delta above the threshold;
\* Move needs neither.
C7_PinchBeforeScroll ==
    (tick = "obs" /\ event.pointer # None) =>
        /\ Pinched(obs, cfg) => event.gesture \in {"click", "drag"}
        /\ event.gesture = "scroll" =>
              (~Pinched(obs, cfg) /\ Abs(MiddleDelta(obs)) > cfg.scroll_threshold)
        /\ event.gesture = "move" =>
              (~Pinched(obs, cfg) /\ Abs(MiddleDelta(obs)) <= cfg.scroll_threshold)
        /\ event.gesture \in {"click", "drag", "scroll", "move"}

\* C7 witness: a hand pinches and scrolls at once and the event is a Click.
C7_Witness ==
    /\ tick = "obs" /\ event.pointer # None
    /\ Pinched(obs, cfg) /\ Abs(MiddleDelta(obs)) > cfg.scroll_threshold
    /\ event.gesture = "click"

\* C8: scroll_delta is minus the middle delta, capped at 0.25 in magnitude,
\* when the middle delta exceeds the scroll threshold in magnitude, and 0
\* otherwise.
C8_ScrollSignAndCap ==
    tick = "obs" =>
        LET md == MiddleDelta(obs)
            sd == event.scroll_delta
        IN /\ md > cfg.scroll_threshold =>
                 (sd <= 0 /\ sd = (IF md < ScrollCap THEN -md ELSE -ScrollCap))
           /\ md < -cfg.scroll_threshold =>
                 (sd >= 0 /\ sd = (IF -md < ScrollCap THEN -md ELSE ScrollCap))
           /\ (md <= cfg.scroll_threshold /\ md >= -cfg.scroll_threshold) => sd = 0
           /\ sd <= ScrollCap /\ sd >= -ScrollCap

\* C8 witness: the middle fingertip is 0.3 below the index fingertip and the
\* scroll delta is -0.25.
C8_Witness ==
    /\ tick = "obs" /\ MiddleDelta(obs) = 300
    /\ event.gesture = "scroll" /\ event.scroll_delta = -ScrollCap

\* r = (a * x + (1000 - a) * y) / 1000 for the integer x and the rationals r, y
IsBlend(r, a, x, y) ==
    1000 * r[1] * y[2] = r[2] * (a * x * y[2] + (1000 - a) * y[1])

\* The rational r clamped to [0, 1]
Clamped(r) ==
    IF r[1] < 0 THEN <<0, 1>> ELSE IF r[1] > 1000 * r[2] THEN <<1000, 1>> ELSE r

\* C9: the first pointer after construction or reset() is the raw index
\* fingertip clamped to [0,1]; every later one is the clamped blend of the raw
\* fingertip and the previous smoothed position with alpha clamped to [0,1];
\* every pointer lies in [0,1] x [0,1].
C9_PointerSmoothing ==
    [][(tick' = "obs" /\ Has(obs', INDEX_TIP)) =>
          LET raw == obs'.index
              prev == gestures.smoothed_position
              sm == gestures'.smoothed_position
              a == IF cfg.smoothing_alpha < 0 THEN 0
                   ELSE IF cfg.smoothing_alpha > 1000 THEN 1000
                   ELSE cfg.smoothing_alpha
          IN /\ event'.pointer # None
             /\ \A i \in 1..2 :
                   /\ event'.pointer[i] = Clamped(sm[i])
                   /\ event'.pointer[i][1] >= 0
                   /\ event'.pointer[i][1] <= 1000 * event'.pointer[i][2]
                   /\ IF prev = None
                      THEN sm[i] = <<raw[i], 1>>
                      ELSE IsBlend(sm[i], a, raw[i], prev[i])
             /\ (/\ cfg.smoothing_alpha = 500
                 /\ prev = <<Rat(100), Rat(100)>>
                 /\ raw = <<900, 900>>)
                => event'.pointer = <<Rat(500), Rat(500)>>]_vars

\* C9 witness: with alpha 0.5 the index fingertip went from (0.1, 0.1) to
\* (0.9, 0.9) and the pointer is (0.5, 0.5).
C9_Witness ==
    /\ tick = "obs" /\ cfg.smoothing_alpha = 500
    /\ obs.index = <<900, 900>> /\ obs.n = NumLandmarks
    /\ event.pointer = <<Rat(500), Rat(500)>>

\* An open hand follows, in the same run, an observation classified Click or Drag
OpensAfterPinch ==
    /\ tick = "obs" /\ event.gesture \in {"click", "drag"}
    /\ tick' = "obs" /\ ~Pinched(obs', cfg)

\* C10 (as claimed): when an open hand follows a Click or a Drag the event has
\* is_drag false and the engine sends exactly one release, also after a Click
\* that never pressed the button.
C10_AlwaysOneRelease ==
    [][OpensAfterPinch =>
          (~event'.is_drag /\ Count(cmds' \o cleanup', "release") = 1)]_vars

\* C10 (amended): when an open hand follows a Click or a Drag the event has
\* is_drag false; the engine sends exactly one release if the button is held,
\* which is so after a Drag, and none if it is not, which is so after a Click.
C10_ReleaseIffHeld ==
    [][OpensAfterPinch =>
          /\ ~event'.is_drag
          /\ (event.gesture = "drag") = (button = "down")
          /\ Count(cmds' \o cleanup', "release") = (IF button = "down" THEN 1 ELSE 0)
          /\ button' = "up"]_vars

\* C10 witness: an open hand released the button that a Drag had pressed.
C10_Witness ==
    /\ tick = "obs" /\ ~Pinched(obs, cfg)
    /\ ~event.is_drag /\ Count(cmds, "release") = 1
    /\ button = "up"

\* C11: with max_inactive_seconds > 0, the first frame without an observation
\* that arrives more than max_inactive_seconds after the last observation (or
\* after the start of the run), the stop event not being set, makes run()
\* return idle_timeout, and the cleanup releases the button exactly once if it
\* is held; run() returns idle_timeout on no other tick: not on one with an
\* observation, not at or before the limit, not with max_inactive_seconds <= 0.
C11_IdleTimeout ==
    /\ []((pc = "running" /\ tick \in {"start", "obs"}) => last_seen = clock)
    /\ [][tick' = "nohand" => last_seen' = last_seen]_vars
    /\ [][(/\ pc = "running"
            /\ tick' = "nohand"
            /\ ~stop_event'
            /\ cfg.max_inactive_ms > 0
            /\ clock' - last_seen > cfg.max_inactive_ms)
           => (/\ pc' = "returned"
               /\ reason' = "idle_timeout"
               /\ Count(cmds' \o cleanup', "release") =
                     (IF button = "down" THEN 1 ELSE 0)
               /\ button' = "up"
               /\ ~dragging')]_vars
    /\ [][(pc = "running" /\ pc' # "running" /\ reason' = "idle_timeout")
           => (/\ tick' = "nohand"
               /\ cfg.max_inactive_ms > 0
               /\ clock' - last_seen > cfg.max_inactive_ms)]_vars

\* C11 witness: run() returned idle_timeout on a frame without a hand that
\* came 180 ms after the last observation, the limit being 120 ms, and released
\* the held button.
C11_Witness ==
    /\ tick = "nohand" /\ pc = "returned" /\ reason = "idle_timeout"
    /\ cfg.max_inactive_ms = 120 /\ clock - last_seen = 180
    /\ Count(cleanup, "release") = 1 /\ button = "up"

\* C12 (as claimed): when a pointer command raises during a tick, run() does
\* not terminate: the loop is still running after the tick, and the failed
\* command was not sent again.
C12_SinkFailureContinues ==
    (tick = "obs" /\ failed # <<>>) => (pc = "running" /\ camera.running)

\* C13 (as claimed): after every tick of the running loop the classifier's
\* drag_active is true only if _dragging is true and the sink's button is down,
\* and drag_active is false after a tick that classified a Click.
C13_DragActiveOnlyIfHeld ==
    (pc = "running" /\ tick \in {"obs", "nohand"}) =>
        /\ gestures.drag_active => (dragging /\ button = "down")
        /\ (tick = "obs" /\ event.gesture = "click") => ~gestures.drag_active

\* C14: reset(), which every tick without an observation calls, sets
\* smoothed_position to None and last_pinched and drag_active to false and
\* leaves last_event_time as it was; the first pointer after it is the raw
\* index fingertip clamped to [0,1], and a pinch after it is a Click exactly
\* when more than debounce_ms have passed since the last Click before it.
C14_ResetClears ==
    /\ [][tick' = "nohand" =>
             gestures' = [smoothed_position |-> None,
                          last_pinched |-> FALSE,
                          last_event_time |-> gestures.last_event_time,
                          drag_active |-> FALSE]]_vars
    /\ [][(tick = "nohand" /\ tick' = "obs" /\ Has(obs', INDEX_TIP)) =>
             /\ event'.pointer = <<Clamped(Rat(obs'.index[1])),
                                   Clamped(Rat(obs'.index[2]))>>
             /\ (Pinched(obs', cfg) /\ lastClick # <<>>) =>
                   (event'.is_click <=>
                      obs'.timestamp - lastClick[Len(lastClick)] > cfg.debounce_ms)]_vars

\* C14 witness: a hand was lost after a Click and pinches again 180 ms after
\* that Click: the event is a Drag and the pointer is the raw fingertip.
C14_Witness ==
    /\ tick = "obs" /\ Pinched(obs, cfg) /\ event.gesture = "drag"
    /\ lastClick # <<>> /\ obs.timestamp - lastClick[Len(lastClick)] = DefaultDebounceMs
    /\ gestures.last_event_time = lastClick[Len(lastClick)]
    /\ gestures.smoothed_position = <<Rat(obs.index[1]), Rat(obs.index[2])>>

\* The raw position p lies in [0,1] x [0,1]
InUnit(p) == \A i \in 1..2 : p[i] >= 0 /\ p[i] <= 1000

\* |r - x| for the rational r and the integer x, as a rational
Dist(r, x) == <<Abs(r[1] - x * r[2]), r[2]>>

\* C15: with alpha in (0,1] and a raw index fingertip p in [0,1]^2, every
\* process() call on a classifier that holds a smoothed position multiplies
\* the distance between smoothed_position and p by (1 - alpha) on each axis,
\* so that feeding the same p on consecutive calls never increases it and
\* shrinks it geometrically; with alpha = 1 the pointer equals p on the first
\* call with p.
C15_SmoothingContracts ==
    [][(/\ tick' = "obs"
        /\ Has(obs', INDEX_TIP)
        /\ InUnit(obs'.index)
        /\ cfg.smoothing_alpha > 0
        /\ cfg.smoothing_alpha <= 1000)
       => \A i \in 1..2 :
             LET x == obs'.index[i]
                 after == Dist(gestures'.smoothed_position[i], x)
             IN /\ gestures.smoothed_position # None =>
                      LET before == Dist(gestures.smoothed_position[i], x)
                      IN /\ 1000 * after[1] * before[2] =
                               (1000 - cfg.smoothing_alpha) * before[1] * after[2]
                         /\ after[1] * before[2] <= before[1] * after[2]
                         /\ before[1] > 0 => after[1] * before[2] < before[1] * after[2]
                /\ gestures.smoothed_position = None => after[1] = 0
                /\ cfg.smoothing_alpha = 1000 => event'.pointer[i] = Rat(x)]_vars

\* C15 witness: with alpha 0.5 the fingertip went from (0.1, 0.1) to (0.9, 0.9)
\* and stayed there for a second call: the smoothed position is (0.7, 0.7),
\* its distance to the fingertip halved twice from 0.8 to 0.2.
C15_Witness ==
    /\ tick = "obs" /\ cfg.smoothing_alpha = 500
    /\ obs.index = <<900, 900>>
    /\ gestures.smoothed_position = <<Rat(700), Rat(700)>>

\* C16: once shutdown() has been called, the stop event of an engine run in
\* progress is set, and the wrapper starts no engine run, whether it was
\* waiting for activation, was about to start with auto_start, or had a run
\* return.
C16_ShutdownImpliesStop ==
    /\ []((app.shutdown /\ pc = "running") => stop_event)
    /\ [][app.shutdown => (tick' # "start" /\ (pc # "running" => pc' # "running"))]_vars
    /\ [][(app.shutdown /\ app.pc # "engine") => app'.pc \in {app.pc, "done"}]_vars

\* C16 witness: shutdown() was called during an engine run, whose stop event
\* is now set.
C16_Witness ==
    /\ tick = "shutdown" /\ app.shutdown
    /\ app.pc = "engine" /\ pc = "running" /\ stop_event

\* C17 (as claimed): when an engine run returns because its stop event was
\* set and shutdown() was not called, the wrapper goes back to waiting for
\* activation; it does not leave its loop.
C17_StopEndsOnlyTheRun ==
    [][(/\ app.pc = "engine" /\ pc = "returned"
        /\ stop_event /\ ~app.shutdown
        /\ app'.pc # "engine")
       => app'.pc = "waiting"]_vars

\* C18 (as claimed): when run() is entered, also after an earlier run on the
\* same engine was stopped while a hand pinched, _dragging is false, last_seen
\* is the current time and the classifier holds no smoothed position, no
\* pinch and no drag.
C18_StartResets ==
    tick = "start" =>
        /\ ~dragging
        /\ last_seen = clock
        /\ gestures.smoothed_position = None
        /\ ~gestures.last_pinched
        /\ ~gestures.drag_active

\* In the commands s a release comes before a click
ReleaseThenClick(s) ==
    \E i, j \in 1..Len(s) : i < j /\ s[i].op = "release" /\ s[j].op = "click"

\* C19 (as claimed): when a Click is dispatched while the button is held, the
\* release is sent to the sink before the click, and _dragging is false after
\* the tick.
C19_ReleaseBeforeClick ==
    [][(/\ tick' = "obs"
        /\ dragging /\ button = "down"
        /\ event'.gesture = "click" /\ event'.is_click)
       => (ReleaseThenClick(cmds') /\ ~dragging')]_vars

\* C20 (as claimed): in a run of consecutive pinched observations the first
\* event, which follows an open hand or a reset, is a Click exactly when the
\* debounce window since the last Click has elapsed, and a Drag otherwise;
\* every later event is a Drag.  The engine sends a click only with the Click,
\* a press only on the first Drag, and no release on any tick of the run.
C20_SustainedPinch ==
    /\ [][(Released /\ tick' = "obs" /\ Pinched(obs', cfg)) =>
             /\ event'.gesture \in {"click", "drag"}
             /\ event'.is_click = (event'.gesture = "click")
             /\ event'.is_drag = (event'.gesture = "drag")
             /\ lastClick # <<>> =>
                   (event'.is_click <=>
                      obs'.timestamp - lastClick[Len(lastClick)] > cfg.debounce_ms)
             /\ Count(cmds', "click") = (IF event'.is_click THEN 1 ELSE 0)
             /\ Count(cmds', "press") <= (IF event'.is_drag THEN 1 ELSE 0)
             /\ Count(cmds', "release") = 0]_vars
    /\ [][(tick = "obs" /\ Pinched(obs, cfg) /\ tick' = "obs" /\ Pinched(obs', cfg)) =>
             /\ event'.gesture = "drag" /\ event'.is_drag /\ ~event'.is_click
             /\ Count(cmds', "click") = 0
             /\ Count(cmds', "press") = (IF event.gesture = "click" THEN 1 ELSE 0)
             /\ Count(cmds', "release") = 0]_vars

\* The integer x is a nearest integer to the rational p (in thousandths)
\* times size
IsRounded(x, p, size) ==
    2 * Abs(x * 1000 * p[2] - p[1] * size) <= 1000 * p[2]

\* C21 (as claimed): a tick whose event has a pointer (px, py) sends exactly
\* one move, as its first command, to x = round(px * W), y = round(py * H) for
\* the screen size (W, H) read at the start of the run; a tick whose event has
\* no pointer sends no move.
C21_MoveToRoundedPixel ==
    tick = "obs" =>
        IF event.pointer = None
        THEN Count(cmds, "move") = 0
        ELSE /\ Count(cmds, "move") = 1
             /\ cmds[1].op = "move"
             /\ IsRounded(cmds[1].a, event.pointer[1], screen[1])
             /\ IsRounded(cmds[1].b, event.pointer[2], screen[2])

\* C22: a tick sends a scroll command exactly when its event is a Scroll with
\* a non-zero scroll_delta, with dy = scroll_delta * 120, at most 30 in
\* magnitude; a Click, Drag, Move or Idle tick sends none; the scroll is the
\* last command of the tick, so that the release of a held button precedes it.
C22_ScrollDispatch ==
    /\ [](tick = "obs" =>
            /\ Count(cmds, "scroll") =
                  (IF event.gesture = "scroll" /\ event.scroll_delta # 0 THEN 1 ELSE 0)
            /\ event.gesture \in {"click", "drag", "move", "idle"} =>
                  Count(cmds, "scroll") = 0
            /\ \A i \in 1..Len(cmds) :
                  cmds[i].op = "scroll" =>
                     /\ i = Len(cmds)
                     /\ cmds[i].a = event.scroll_delta * ScrollScale
                     /\ Abs(cmds[i].a) <= 30 * 1000)
    /\ [][(tick' = "obs" /\ button = "down" /\ event'.gesture = "scroll") =>
             \E i \in 1..Len(cmds') :
                /\ cmds'[i].op = "release"
                /\ cmds'[Len(cmds')].op = "scroll"
                /\ i < Len(cmds')]_vars

\* C22 witness: a scrolling open hand followed a Drag: the tick released the
\* button and then scrolled by -0.25 * 120.
C22_Witness ==
    /\ tick = "obs" /\ event.gesture = "scroll"
    /\ Len(cmds) = 3
    /\ cmds[2].op = "release" /\ cmds[3] = Scroll(-30 * 1000)

\* C23: once the stop event is set, the next tick of the loop detects and
\* classifies nothing, sends no pointer command but the release of a held
\* button by the cleanup, and run() returns reason stopped, also when the idle
\* timeout has elapsed by then.
C23_StopIsCooperative ==
    [][(pc = "running" /\ stop_event /\ tick' # "signal") =>
          /\ tick' \in {"stopped", "ended"}
          /\ pc' = "returned"
          /\ reason' = "stopped"
          /\ gestures' = gestures
          /\ lastClick' = lastClick
          /\ last_seen' = last_seen
          /\ cmds' = <<>>
          /\ cleanup' = (IF button = "down" THEN <<Release>> ELSE <<>>)
          /\ button' = "up"
          /\ ~dragging'
          /\ ~camera'.running]_vars

\* C23 witness: the stop event was set while the button was held, and the
\* next frame came after the idle limit: run() returned stopped and released.
C23_Witness ==
    /\ tick = "stopped" /\ pc = "returned" /\ reason = "stopped"
    /\ cfg.max_inactive_ms > 0 /\ clock - last_seen > cfg.max_inactive_ms
    /\ cleanup = <<Release>>

\* C24: when an engine run returned idle_timeout and neither shutdown() was
\* called nor the stop event set, the wrapper goes to wait for activation,
\* with should_auto_start false and no engine stop event, and leaves the
\* engine returned; an engine run starts only from the wrapper's entry or
\* from an activation, on a stop event that is new and not set.
C24_WaitsAfterIdleTimeout ==
    /\ [][(/\ app.pc = "engine" /\ pc = "returned" /\ reason = "idle_timeout"
            /\ ~app.shutdown /\ ~stop_event
            /\ app'.pc # "engine")
           => (/\ app'.pc = "waiting"
               /\ ~app'.should_auto_start
               /\ ~app'.engine_stop
               /\ pc' = "returned")]_vars
    /\ [][(pc # "running" /\ pc' = "running")
           => (/\ tick' = "start"
               /\ app.pc \in {"init", "waiting"}
               /\ ~app.shutdown
               /\ app'.pc = "engine" /\ app'.engine_stop
               /\ ~stop_event')]_vars
    /\ [](app.pc = "waiting" => pc # "running")

\* C24 witness: a run returned idle_timeout and the wrapper waits for the
\* next activation.
C24_Witness ==
    /\ tick = "app" /\ app.pc = "waiting" /\ ~app.shutdown
    /\ pc = "returned" /\ reason = "idle_timeout"
    /\ ~app.should_auto_start /\ ~app.engine_stop

\* C25: no tick of the engine loop calls detect() after shutdown() closed the
\* hand tracker: a tick that starts after the close finds the stop event set
\* and leaves the loop before detection.
C25_NoDetectAfterClose ==
    /\ [](tick \in {"obs", "nohand"} => ~app.tracker_closed)
    /\ []((app.tracker_closed /\ pc = "running") => stop_event)
    /\ [][(app.tracker_closed /\ pc = "running" /\ pc' # "running")
           => tick' \in {"stopped", "ended"}]_vars

\* C25 witness: shutdown() closed the tracker during an engine run, and the
\* next frame left the loop on the stop event.
C25_Witness ==
    /\ app.tracker_closed /\ app.pc = "engine"
    /\ tick = "stopped" /\ pc = "returned" /\ reason = "stopped"

\* C26: every event that process() returns is well formed: is_click holds
\* exactly for a Click and is_drag exactly for a Drag, never both; the event
\* is Idle exactly when it has no pointer, and an Idle event has is_click and
\* is_drag false and scroll_delta 0.
C26_EventWellFormed ==
    tick = "obs" =>
        /\ event.gesture \in {"idle", "move", "click", "drag", "scroll"}
        /\ event.is_click <=> event.gesture = "click"
        /\ event.is_drag <=> event.gesture = "drag"
        /\ ~(event.is_click /\ event.is_drag)
        /\ event.gesture = "idle" <=> event.pointer = None
        /\ event.gesture = "idle" =>
              (~event.is_click /\ ~event.is_drag /\ event.scroll_delta = 0)

\* C26 witness: a classifier that holds a smoothed position and a Click got a
\* landmark list that ends just before the index fingertip and returned Idle.
C26_Witness ==
    /\ tick = "obs" /\ obs.n = INDEX_TIP
    /\ event.gesture = "idle" /\ event.pointer = None
    /\ gestures.smoothed_position # None /\ gestures.last_event_time > 0

\* C27 (as claimed): an event has a non-zero scroll_delta only if it is a
\* Scroll: a Click, Drag, Move or Idle event has scroll_delta 0, also on a
\* frame that pinches and scrolls at once.
C27_DeltaOnlyOnScroll ==
    tick = "obs" => (event.scroll_delta # 0 => event.gesture = "scroll")

\* C27 (amended): scroll_delta is non-zero exactly when the middle delta
\* exceeds the scroll threshold in magnitude, whatever the kind: a Scroll
\* event has a non-zero delta, a Move or Idle event has 0, and a Click or Drag
\* event of a frame that pinches and scrolls at once keeps the delta of the
\* scroll it replaced, for which the engine sends no scroll command.
C27_DeltaFollowsMiddleFinger ==
    tick = "obs" =>
        /\ event.scroll_delta # 0 <=> Abs(MiddleDelta(obs)) > cfg.scroll_threshold
        /\ event.gesture = "scroll" => event.scroll_delta # 0
        /\ event.gesture \in {"move", "idle"} => event.scroll_delta = 0
        /\ event.gesture \in {"click", "drag"} =>
              /\ event.scroll_delta # 0 <=>
                    (Pinched(obs, cfg) /\ Abs(MiddleDelta(obs)) > cfg.scroll_threshold)
              /\ Count(cmds, "scroll") = 0

\* C27 witness: a hand pinches with the middle fingertip 0.3 below the index
\* fingertip: the event is a Drag with scroll_delta -0.25 and no scroll is sent.
C27_Witness ==
    /\ tick = "obs" /\ event.gesture = "drag"
    /\ MiddleDelta(obs) = 300 /\ event.scroll_delta = -ScrollCap
    /\ Count(cmds, "scroll") = 0

\* C28 (as claimed): when run() has returned or raised, the frame source it
\* started is stopped, also when screen_size() raised right after the start
\* of the frame source.
C28_CameraStoppedOnExit ==
    pc \in {"returned", "raised"} => ~camera.running

====
